---- MODULE Spec2Model ----
(***************************************************************************)
(* The Bitcoin price pipeline of the repository: the price fetcher service *)
(* (scripts/start-price-fetcher.ts), the fetch+publish pipeline            *)
(* (lib/price-fetcher.ts) and the subscriber hook (useBTCPrice), as state  *)
(* machines over the JavaScript event loop: every action is one            *)
(* macrotask (a timer or cron callback, a signal handler, the resolution   *)
(* of an awaited external call) together with the microtasks it runs.      *)
(***************************************************************************)
EXTENDS Integers, Sequences, FiniteSets, TLC

\* ---------------------------------------------------------------- bounds
\* Cadence (cron) ticks observed by the model.
MaxTicks == 3
\* Wall-clock seconds (Date.now() / 1000) observed by the model.
MaxClock == 1
\* Publishes by the publisher while the subscriber is observed.
MaxPublishes == 2
\* Hexadecimal digits of an ABI word, of a uint64 and of an address.
WordDigits == 6
Uint64Digits == 2
AddressDigits == 2
\* Nesting of {value: ...} objects around a value handed to decodePriceUpdate.
MaxWrap == 2
\* POST requests received while the route is observed.
MaxPosts == 1

\* The prices the upstream API answers with, in thousandths of a dollar
\* (price * 1000 is an integer for each): $100,000.00 and $12.349.
Prices == {100000000, 12349}

\* An address string is its hexadecimal digits and the case of its letters;
\* this one is no address (null, or a value of another type).
NoAddress == [nib |-> << >>, casing |-> "none"]

NoRecord == [price |-> -1, timestamp |-> -1, updater |-> NoAddress]

VARIABLES
    \* --- the process running scripts/start-price-fetcher.ts
    proc,           \* "loading" | "running" | "envError" | "shutdown" | "fatal"
    signalled,      \* a SIGINT/SIGTERM has been delivered
    envFileLoaded,  \* config({path}) returned no error
    cmcApiKey,      \* process.env.CMC_API_KEY is set
    priceSchemaId,  \* process.env.PRICE_SCHEMA_ID is set
    publisherAddress, \* process.env.PUBLISHER_ADDRESS, as it is written
    isFetching,     \* let isFetching
    retryTimeout,   \* let retryTimeout: TRUE when it holds a timer handle
    timers,         \* retry timers armed in the event loop and not yet fired
    cronScheduled,  \* cron.schedule(...) has been called and the job is live
    runs,           \* the pipeline executions in flight, each suspended at an await
    ticks,          \* cadence ticks fired so far
    skipped,        \* cadence ticks skipped since isFetching was last taken
    lastTrigger,    \* what started the most recent execution
    lastResult,     \* what the most recent finished execution returned
    prevResult,     \* lastResult as it was when the most recent execution started
    lastFailure,    \* the call that threw in the most recent failed execution
    started,        \* parity of the number of executions started
    \* --- the outside world
    apiUp,          \* the price API answers the next request with a quote
    chainUp,        \* the stream transport accepts the next setAndEmitEvents
    clock,          \* Math.floor(Date.now() / 1000)
    store,          \* the record at PRICE_DATA_ID for the publisher
    writes,         \* records written at PRICE_DATA_ID
    events,         \* PriceUpdated events emitted
    \* --- the component using the useBTCPrice hook
    hookConfigured, \* PRICE_SCHEMA_ID and PUBLISHER_ADDRESS are both set
    iife,           \* "unmounted" | "noconfig" | "read" | "subscribing" | "done"
    isSubscribed,   \* let isSubscribed
    cleanedUp,      \* the effect's cleanup (stop) has run
    state,          \* the state the hook returns
    subscription,   \* "none" | "pending" | "active" | "failed" | "cancelled"
    notifs,         \* PriceUpdated notifications emitted and not yet delivered
    rereads,        \* the reads started by onData, in flight
    initialRes,     \* how the read of fetchCurrentPrice settled
    rereadFaults,   \* some re-read was answered with no decodable record
    missed,         \* a publish happened while no subscription was active
    \* --- a caller of lib/encoding.ts
    codecRec,       \* the record the caller starts from
    codecIn,        \* the value handed to decodePriceUpdate
    codecOut,       \* what decodePriceUpdate returned or threw
    codecVia,       \* how codecIn was made: "none" | "encode" | "wrap" | "other"
    codecPc,        \* "start" | "decode" | "done"
    \* --- the route app/api/btc-price
    routeSchemaId,  \* PRICE_SCHEMA_ID is set in the route's process
    response,       \* the response to the most recent request
    routeRead,      \* how the read of the most recent request settled
    served,         \* parity of the number of requests served
    posts,          \* the POST handlers in flight, each suspended at an await
    postCount,      \* POST requests received
    postResponse,   \* the response to the most recently answered POST
    postCycle,      \* what the cycle of that POST published, where it failed
    contractConfigured, \* CONTRACT_ADDRESS, PRIVATE_KEY and RPC_URL are set
    contractPrice,  \* the price and timestamp the contract holds
    contractOutcome \* how the most recent updateContractPrice ended

schedVars == <<proc, signalled, isFetching, retryTimeout, timers, cronScheduled,
               runs, ticks, skipped, lastTrigger, lastResult, prevResult,
               lastFailure, started>>
envVars == <<envFileLoaded, cmcApiKey, priceSchemaId, publisherAddress>>
contractVars == <<contractConfigured, contractPrice, contractOutcome>>
worldVars == <<apiUp, chainUp, clock>>
streamVars == <<store, writes, events>>
obsVars == <<initialRes, rereadFaults, missed>>
subVars == <<hookConfigured, iife, isSubscribed, cleanedUp, state, subscription,
             notifs, rereads, obsVars>>
codecVars == <<codecRec, codecIn, codecOut, codecVia, codecPc>>
apiVars == <<routeSchemaId, response, routeRead, served>>
manualVars == <<posts, postCount, postResponse, postCycle>>
vars == <<schedVars, envVars, contractVars, worldVars, streamVars, subVars, codecVars, apiVars,
         manualVars>>

\* null, for the fields of the hook's state that hold text.
NULL == "null"

\* useState's initial value; a null number is written -1.
InitialState ==
    [price |-> [whole |-> -1, frac |-> -1], priceBigInt |-> -1, timestamp |-> -1,
     updater |-> NoAddress, isLoading |-> TRUE, error |-> NULL,
     lastUpdate |-> NULL]

\* ------------------------------------------------------------ lib/encoding
\* An ABI word is 32 bytes, a uint64 8 bytes and an address 20 bytes; the
\* model keeps the layout (big-endian, left-padded words) with the widths
\* scaled to WordDigits, Uint64Digits and AddressDigits hexadecimal digits.
RECURSIVE Pow16(_)
Pow16(n) == IF n = 0 THEN 1 ELSE 16 * Pow16(n - 1)

MaxUint256 == Pow16(WordDigits) - 1
MaxUint64 == Pow16(Uint64Digits) - 1

\* The big-endian digits of n, left-padded to len, and their value.
toDigits(n, len) == [i \in 1..len |-> (n \div Pow16(len - i)) % 16]

RECURSIVE fromDigits(_)
fromDigits(d) ==
    IF d = << >> THEN 0
    ELSE 16 * fromDigits(SubSeq(d, 1, Len(d) - 1)) + d[Len(d)]

\* An address string is its digits and the case of its letters: all lower
\* case, or the mixed case of its checksum (the case viem prints).  A string
\* with no letter among its digits is its own checksum form.
HasLetter(nib) == \E i \in 1..Len(nib) : nib[i] >= 10

checksumAddress(a) == [nib |-> a.nib, casing |-> "checksum"]

AddressStrings ==
    LET nibs == {[i \in 1..AddressDigits |-> 10],
                 [i \in 1..AddressDigits |-> IF i = 1 THEN 1 ELSE 11],
                 [i \in 1..AddressDigits |-> 1]}
    IN  {[nib |-> n, casing |-> "checksum"] : n \in nibs}
        \cup {[nib |-> n, casing |-> "lower"] : n \in {m \in nibs : HasLetter(m)}}

\* getPublisherAddress(): the publishing account, written in checksum case.
PublisherAddress ==
    [nib |-> [i \in 1..AddressDigits |-> IF i = 1 THEN 1 ELSE 11],
     casing |-> "checksum"]

\* A JavaScript value in a field position: a leaf of type t ("bigint",
\* "number" (an integer), "fraction" (a number that is no integer), "decimal"
\* (a string of digits), "empty" (the string ""), "text" (any other string
\* that is no number), "address" (an address string), "null", "undefined")
\* inside w nested {value: ...} objects.
Leaf(t, n, a) == [t |-> t, n |-> n, a |-> a, w |-> 0]
Wrapped(f, w) == [f EXCEPT !.w = w]
Undefined == Leaf("undefined", 0, NoAddress)
AddressLeaf(a) == Leaf("address", 0, a)

\* What decodePriceUpdate does: return a PriceUpdate or throw.
Returned(p, t, u) == [ok |-> TRUE, price |-> p, timestamp |-> t, updater |-> u]
Thrown == [ok |-> FALSE, price |-> 0, timestamp |-> 0, updater |-> Undefined]

\* The values decodePriceUpdate is handed, by the branch they take.
\* A string: hex tells whether it starts with 0x, bytes are its digits.
StringInput(hex, bytes) ==
    [outer |-> IF hex THEN "hexstring" ELSE "string", bytes |-> bytes, len |-> 0,
     first |-> "none", depth |-> 0, inner |-> "none", values |-> << >>]
\* An array of len elements whose first one is a hex string.
ArrayOfHex(bytes, len) ==
    [outer |-> "array", bytes |-> bytes, len |-> len, first |-> "hexstring",
     depth |-> 0, inner |-> "none", values |-> << >>]
\* An array of len elements whose first one is depth nested {value: ...}
\* objects around the array values (inner = "array") or around something
\* that is no array.
ArrayOfWrapper(depth, inner, values, len) ==
    [outer |-> "array", bytes |-> << >>, len |-> len, first |-> "wrapper",
     depth |-> depth, inner |-> inner, values |-> values]
\* An array of len elements whose first one, if any, is neither.
ArrayOfOther(len) ==
    [outer |-> "array", bytes |-> << >>, len |-> len,
     first |-> IF len = 0 THEN "none" ELSE "other",
     depth |-> 0, inner |-> "none", values |-> << >>]
\* A number, null, undefined or an object that is no array.
NoInput ==
    [outer |-> "other", bytes |-> << >>, len |-> 0, first |-> "none",
     depth |-> 0, inner |-> "none", values |-> << >>]

NoCodecRecord == [price |-> 0, timestamp |-> 0, updater |-> Undefined]

\* viem's encodeAbiParameters('uint256, uint64, address'): each value is
\* range-checked and written as one word.
encodable(update) ==
    /\ update.price \in 0..MaxUint256
    /\ update.timestamp \in 0..MaxUint64
    /\ update.updater.t = "address"

encodePriceUpdate(update) ==
    toDigits(update.price, WordDigits)
        \o toDigits(update.timestamp, WordDigits)
        \o toDigits(fromDigits(update.updater.a.nib), WordDigits)

decodeAbiWordsSwapped(bytes) ==
    IF Len(bytes) < 3 * WordDigits THEN Thrown
    ELSE Returned(fromDigits(SubSeq(bytes, WordDigits + 1, 2 * WordDigits)),
                  fromDigits(SubSeq(bytes, 1, WordDigits)),
                  AddressLeaf(checksumAddress(
                      [nib |-> SubSeq(bytes, 3 * WordDigits - AddressDigits + 1,
                                      3 * WordDigits),
                       casing |-> "lower"])))

\* viem's decodeAbiParameters('uint256, uint64, address'): data shorter than
\* three words throws; the numbers are read from whole words and the address
\* from the low 20 bytes of its word, and is returned in checksum case.
decodeAbiParameters(bytes) ==
    IF Len(bytes) < 3 * WordDigits THEN Thrown
    ELSE Returned(fromDigits(SubSeq(bytes, 1, WordDigits)),
                  fromDigits(SubSeq(bytes, WordDigits + 1, 2 * WordDigits)),
                  AddressLeaf(checksumAddress(
                      [nib |-> SubSeq(bytes, 3 * WordDigits - AddressDigits + 1,
                                      3 * WordDigits),
                       casing |-> "lower"])))

toBigIntNoStrings(val) ==
    IF val.t \in {"bigint", "number"} THEN [ok |-> TRUE, n |-> val.n]
    ELSE [ok |-> FALSE, n |-> 0]

\* toBigInt(val): a bigint as it is; BigInt(val) of a number (a fraction
\* throws) and of a string ("" is 0n, a hex string its value, other text
\* throws); the value inside a {value: ...} object, recursively; anything
\* else throws.
RECURSIVE toBigInt(_)
toBigInt(val) ==
    IF val.w > 0 THEN toBigInt(Wrapped(val, val.w - 1))
    ELSE IF val.t \in {"bigint", "number", "decimal"} THEN [ok |-> TRUE, n |-> val.n]
    ELSE IF val.t = "empty" THEN [ok |-> TRUE, n |-> 0]
    ELSE IF val.t = "address" THEN [ok |-> TRUE, n |-> fromDigits(val.a.nib)]
    ELSE [ok |-> FALSE, n |-> 0]

\* extractAddress(addr): a string as it is; the value inside a {value: ...}
\* object, recursively; anything else as it is, too.
RECURSIVE extractAddress(_)
extractAddress(addr) ==
    IF addr.w > 0 THEN extractAddress(Wrapped(addr, addr.w - 1)) ELSE addr

enoughValuesLoose(n) == n >= 2

\* values.length >= 3
enoughValues(n) == n >= 3

\* const [price, timestamp, updater] = values: a missing element is undefined.
item(values, i) == IF i <= Len(values) THEN values[i] ELSE Undefined

decodeFields(values) ==
    LET price == toBigInt(item(values, 1))
        timestamp == toBigInt(item(values, 2))
    IN  IF price.ok /\ timestamp.ok
        THEN Returned(price.n, timestamp.n, extractAddress(item(values, 3)))
        ELSE Thrown

\* decodePriceUpdate(data).  The while loop descends through the nested
\* {value: ...} objects of the first element until the value is an array.
decodePriceUpdate(data) ==
    IF data.outer = "array" /\ data.len > 0 /\ data.first = "hexstring"
    THEN decodeAbiParameters(data.bytes)
    ELSE IF /\ data.outer = "array" /\ data.len > 0 /\ data.first = "wrapper"
            /\ data.inner = "array" /\ enoughValues(Len(data.values))
    THEN decodeFields(data.values)
    ELSE IF data.outer = "hexstring"
    THEN decodeAbiParameters(data.bytes)
    ELSE Thrown

\* The records a caller starts from: prices and timestamps over their whole
\* ranges and one timestamp past uint64; addresses in either case.
CodecRecords ==
    {[price |-> p, timestamp |-> t, updater |-> AddressLeaf(a)] :
        p \in {0, MaxUint256 \div 3, MaxUint256},
        t \in {1, MaxUint64, MaxUint64 + 1},
        a \in AddressStrings}

\* The types an integer field of a wrapped record arrives in.
IntegerLeaves(n) ==
    {Leaf(t, n, NoAddress) : t \in {"bigint", "number", "decimal"}}

\* What else decodePriceUpdate can be handed, built from the record r.
OtherInputs(r) ==
    LET good == << Leaf("bigint", r.price, NoAddress),
                   Leaf("decimal", r.timestamp, NoAddress), r.updater >>
        bad == {Leaf("text", 0, NoAddress), Leaf("fraction", 0, NoAddress),
                Leaf("empty", 0, NoAddress), Leaf("null", 0, NoAddress),
                Leaf("number", r.price, NoAddress), Undefined}
    IN  {NoInput, StringInput(FALSE, << >>),
         StringInput(TRUE, SubSeq(encodePriceUpdate(r), 1, 2 * WordDigits))}
        \cup {ArrayOfOther(n) : n \in 0..3}
        \cup {ArrayOfHex(SubSeq(encodePriceUpdate(r), 1, WordDigits), n) : n \in 1..2}
        \cup {ArrayOfWrapper(d, "other", << >>, 1) : d \in 1..MaxWrap}
        \cup {ArrayOfWrapper(d, "array", SubSeq(good, 1, n), 1) :
                 d \in 1..MaxWrap, n \in 0..2}
        \cup {ArrayOfWrapper(1, "array", [good EXCEPT ![i] = Wrapped(b, w)], 1) :
                 i \in 1..3, b \in bad, w \in 0..1}

\* encodePriceUpdate(codecRec), handed on as it is or as the only element of
\* an array; encodeAbiParameters throws for a value out of range.
Encode ==
    /\ codecPc = "start"
    /\ codecVia' = "encode"
    /\ IF encodable(codecRec)
       THEN /\ \E inArray \in BOOLEAN :
                 codecIn' = IF inArray THEN ArrayOfHex(encodePriceUpdate(codecRec), 1)
                            ELSE StringInput(TRUE, encodePriceUpdate(codecRec))
            /\ codecPc' = "decode"
       ELSE /\ codecPc' = "done"
            /\ UNCHANGED codecIn
    /\ UNCHANGED <<codecRec, codecOut, schedVars, envVars, contractVars, worldVars, streamVars,
                   subVars, apiVars, manualVars>>

\* The stream SDK's decoded form of codecRec: the field sequence inside
\* depth {value: ...} objects, each field a string, number or bigint or
\* itself wrapped, with or without fields after the third.
Wrap ==
    /\ codecPc = "start"
    /\ encodable(codecRec)
    /\ codecVia' = "wrap"
    /\ \E depth \in 1..MaxWrap, wp, wt, wu \in 0..MaxWrap, extra \in BOOLEAN :
       \E p \in IntegerLeaves(codecRec.price),
          t \in IntegerLeaves(codecRec.timestamp) :
           codecIn' = ArrayOfWrapper(depth, "array",
                          << Wrapped(p, wp), Wrapped(t, wt),
                             Wrapped(codecRec.updater, wu) >>
                              \o (IF extra THEN << Undefined >> ELSE << >>), 1)
    /\ codecPc' = "decode"
    /\ UNCHANGED <<codecRec, codecOut, schedVars, envVars, contractVars, worldVars, streamVars,
                   subVars, apiVars, manualVars>>

\* Any other value reaches decodePriceUpdate.
Other ==
    /\ codecPc = "start"
    /\ codecVia' = "other"
    /\ codecIn' \in OtherInputs(codecRec)
    /\ codecPc' = "decode"
    /\ UNCHANGED <<codecRec, codecOut, schedVars, envVars, contractVars, worldVars, streamVars,
                   subVars, apiVars, manualVars>>

\* decodePriceUpdate(codecIn) returns or throws.
Decode ==
    /\ codecPc = "decode"
    /\ codecOut' = decodePriceUpdate(codecIn)
    /\ codecPc' = "done"
    /\ UNCHANGED <<codecRec, codecIn, codecVia, schedVars, envVars, contractVars, worldVars,
                   streamVars, subVars, apiVars, manualVars>>

\* ------------------------------------------------------- lib/price-fetcher

priceCentsRounded(milli) == (milli + 5) \div 10

\* Math.floor(priceData.price * 100), for a price of milli / 1000 dollars.
priceCents(milli) == milli \div 10

\* The record publishPriceUpdate encodes.
priceRecord(priceData) ==
    [price |-> priceCents(priceData.price),
     timestamp |-> priceData.timestamp,
     updater |-> publisherAddress]

dataStreams(priceData) == << priceRecord(priceData) >>

eventStreamsNone(priceData) == << >>

eventStreams(priceData) ==
    << [topic |-> priceCents(priceData.price), data |-> priceData.timestamp] >>

\* sdk.streams.setAndEmitEvents(data, evts), accepted: one transaction that
\* writes every data stream at its key and emits every event stream.
setAndEmitEvents(data, evts) ==
    /\ store' = IF Len(data) > 0 THEN data[Len(data)] ELSE store
    /\ writes' = writes + Len(data)
    /\ events' = events + Len(evts)

fetchAndPublishThrows(ok) == IF ok THEN "true" ELSE "throw"

\* What fetchAndPublishPrice returns: true when fetch and publish both
\* resolved, false when either threw.
fetchAndPublishPrice(ok) == IF ok THEN "true" ELSE "false"

\* ------------------------------------------- scripts/start-price-fetcher

skipNever(busy) == FALSE

\* if (isFetching) { ...; return; }
skipTick(busy) == busy

timerRepeats(tm) == tm

\* setTimeout is one-shot: the timer that fires is no longer pending.
timerAfterFire(tm) == tm - 1

finallyClears(rt, busy) == FALSE

\* finally { if (retryTimeout === null) isFetching = false; }
finallyIsFetching(rt, busy) == IF rt THEN busy ELSE FALSE

\* fetchWithRetry after `await fetchAndPublishPrice()` settled with `res`, in
\* an execution started by `trig`; rt, tm and busy are retryTimeout, timers
\* and isFetching as the execution finds them.
Completion(res, why, trig, rt, tm, busy) ==
    LET arm == res = "false" /\ ~rt
        rt2 == rt \/ arm
    IN  /\ lastResult' = res
        /\ lastFailure' = IF res = "true" THEN lastFailure ELSE why
        /\ retryTimeout' = rt2
        /\ timers' = IF arm THEN tm + 1 ELSE tm
        /\ isFetching' = finallyIsFetching(rt2, busy)
        \* an exception leaving fetchWithRetry rejects main() (initial run:
        \* main().catch exits) or the cron/timer callback (unhandled rejection)
        /\ proc' = IF res = "throw" THEN "fatal" ELSE "running"
        /\ cronScheduled' = IF res = "throw" THEN FALSE
                            ELSE (cronScheduled \/ trig = "initial")

\* fetchWithRetry past its isFetching guard.  fetchBTCPrice throws before its
\* first await when the API key is missing, so that execution fails within
\* the macrotask that started it.
fetchWithRetry(trig, rt, tm) ==
    /\ skipped' = 0
    /\ lastTrigger' = trig
    /\ prevResult' = lastResult
    /\ started' = 1 - started
    /\ IF cmcApiKey
       THEN /\ runs' = Append(runs, [stage |-> "fetch", trigger |-> trig,
                                     data |-> NoRecord])
            /\ isFetching' = TRUE
            /\ retryTimeout' = rt
            /\ timers' = tm
            /\ lastResult' = "none"
            /\ proc' = "running"
            /\ UNCHANGED <<cronScheduled, lastFailure>>
       ELSE /\ runs' = runs
            /\ Completion(fetchAndPublishPrice(FALSE), "fetch", trig, rt, tm, TRUE)

RemoveAt(s, i) == SubSeq(s, 1, i - 1) \o SubSeq(s, i + 1, Len(s))

\* Module load and main(): the environment file is read, the process exits
\* if it cannot be, the signal handlers are registered and main() calls the
\* initial fetchWithRetry.
Startup ==
    /\ proc = "loading"
    /\ IF ~envFileLoaded
       THEN /\ proc' = "envError"
            /\ UNCHANGED <<isFetching, retryTimeout, timers, cronScheduled,
                   runs,
                           skipped, lastTrigger, lastResult, prevResult,
                           lastFailure, started>>
       ELSE fetchWithRetry("initial", retryTimeout, timers)
    /\ UNCHANGED <<signalled, ticks,
                   envVars, contractVars, codecVars, apiVars, manualVars, worldVars,
                   streamVars, subVars>>

\* The cron callback: one cadence tick.
Tick ==
    /\ proc = "running"
    /\ cronScheduled
    /\ ticks < MaxTicks
    /\ ticks' = ticks + 1
    /\ IF skipTick(isFetching)
       THEN /\ skipped' = skipped + 1
            /\ UNCHANGED <<proc, isFetching, retryTimeout, timers,
                   cronScheduled,
                           runs, lastTrigger, lastResult, prevResult,
                           lastFailure, started>>
       ELSE fetchWithRetry("tick", retryTimeout, timers)
    /\ UNCHANGED <<signalled,
                   envVars, contractVars, codecVars, apiVars, manualVars, worldVars,
                   streamVars, subVars>>

retryCallbackKeepsFlag == isFetching

\* The retry callback's `isFetching = false`.
retryCallbackIsFetching == FALSE

\* The retry timer's callback: retryTimeout = null; isFetching = false;
\* await fetchWithRetry().
RetryFire ==
    /\ proc = "running"
    /\ timers > 0
    /\ IF skipTick(retryCallbackIsFetching)
       THEN /\ retryTimeout' = FALSE
            /\ timers' = timerAfterFire(timers)
            /\ isFetching' = retryCallbackIsFetching
            /\ UNCHANGED <<proc, cronScheduled, runs, skipped, lastTrigger,
                           lastResult, prevResult, lastFailure, started>>
       ELSE fetchWithRetry("retry", FALSE, timerAfterFire(timers))
    /\ UNCHANGED <<signalled, ticks,
                   envVars, contractVars, codecVars, apiVars, manualVars, worldVars,
                   streamVars, subVars>>

fetchBTCPriceSwallows(up) == FALSE

\* fetchBTCPrice's catch block logs the failure and rethrows it: the function
\* throws exactly when the request is rejected or the answer is malformed.
fetchBTCPriceThrows(up) == ~up

\* axios.get settles for the execution runs[i].  A quote resolves
\* fetchBTCPrice with the price and the current time, and publishPriceUpdate
\* runs up to its await (it throws first when the schema id is missing); a
\* rejected or malformed answer makes fetchBTCPrice throw, and the catch of
\* fetchAndPublishPrice returns false without calling publishPriceUpdate.
FetchReturn(i) ==
    /\ proc = "running"
    /\ runs[i].stage = "fetch"
    /\ \E p \in Prices :
        LET priceData == IF apiUp THEN [price |-> p, timestamp |-> clock]
                                  ELSE [price |-> -1, timestamp |-> -1]
        IN  IF ~fetchBTCPriceThrows(apiUp) /\ priceSchemaId
            THEN /\ runs' = [runs EXCEPT ![i] = [@ EXCEPT !.stage = "publish",
                                                          !.data = priceData]]
                 /\ UNCHANGED <<proc, isFetching, retryTimeout, timers,
                                cronScheduled, lastResult, lastFailure>>
            ELSE /\ runs' = RemoveAt(runs, i)
                 /\ Completion(fetchAndPublishPrice(FALSE),
                               IF fetchBTCPriceThrows(apiUp) THEN "fetch"
                                                             ELSE "publish",
                               runs[i].trigger, retryTimeout, timers, isFetching)
    /\ UNCHANGED <<signalled, ticks, skipped, lastTrigger, prevResult, started,
                   envVars, contractVars, codecVars, apiVars, manualVars, worldVars,
                   streamVars, subVars>>

\* sdk.streams.setAndEmitEvents settles for the execution runs[i]: accepted,
\* the record is written and the event emitted; rejected, neither is, and
\* publishPriceUpdate rethrows without another attempt.
PublishReturn(i) ==
    /\ proc = "running"
    /\ runs[i].stage = "publish"
    /\ runs' = RemoveAt(runs, i)
    /\ IF chainUp
       THEN /\ setAndEmitEvents(dataStreams(runs[i].data), eventStreams(runs[i].data))
            /\ Completion(fetchAndPublishPrice(TRUE), "none", runs[i].trigger,
                          retryTimeout, timers, isFetching)
       ELSE /\ UNCHANGED streamVars
            /\ Completion(fetchAndPublishPrice(FALSE), "publish", runs[i].trigger,
                          retryTimeout, timers, isFetching)
    /\ UNCHANGED <<signalled, ticks, skipped, lastTrigger, prevResult, started,
                   envVars, contractVars, codecVars, apiVars, manualVars, worldVars, subVars>>

\* ------------------------- lib/price-fetcher, with the contract update

updateContractPriceRethrows(outcome) == outcome = "failed"

\* updateContractPrice catches whatever its body throws ("Don't throw") and
\* returns on a missing setting or an empty balance: it never throws.
updateContractPriceThrows(outcome) == FALSE

\* The end of fetchAndPublishPrice after updateContractPrice ended with
\* `outcome`, and of the execution that awaited it.
afterContractUpdate(i, outcome) ==
    /\ contractOutcome' = outcome
    /\ runs' = RemoveAt(runs, i)
    /\ Completion(fetchAndPublishPrice(~updateContractPriceThrows(outcome)),
                  IF updateContractPriceThrows(outcome) THEN "contract"
                                                        ELSE "none",
                  runs[i].trigger, retryTimeout, timers, isFetching)

\* setAndEmitEvents settles for the execution runs[i] of the pipeline that
\* also updates the contract.  Rejected, publishPriceUpdate rethrows and
\* updateContractPrice is not called.  Accepted, updateContractPrice is
\* called: it returns at once when a setting is missing, and is otherwise
\* suspended at its first request to the node.
PublishThenContract(i) ==
    /\ proc = "running"
    /\ runs[i].stage = "publish"
    /\ IF ~chainUp
       THEN /\ runs' = RemoveAt(runs, i)
            /\ Completion(fetchAndPublishPrice(FALSE), "publish",
                          runs[i].trigger, retryTimeout, timers, isFetching)
            /\ UNCHANGED <<streamVars, contractPrice, contractOutcome>>
       ELSE /\ setAndEmitEvents(dataStreams(runs[i].data),
                                eventStreams(runs[i].data))
            /\ contractPrice' = contractPrice
            /\ IF ~contractConfigured
               THEN afterContractUpdate(i, "skipped")
               ELSE /\ runs' = [runs EXCEPT ![i] = [@ EXCEPT !.stage = "contract"]]
                    /\ contractOutcome' = "pending"
                    /\ UNCHANGED <<proc, isFetching, retryTimeout, timers,
                                   cronScheduled, lastResult, lastFailure>>
    /\ UNCHANGED <<signalled, ticks, skipped, lastTrigger, prevResult, started,
                   contractConfigured, envVars, codecVars, apiVars, manualVars,
                   worldVars, subVars>>

\* updateContractPrice settles for the execution runs[i]: the balance is
\* zero, a request or the transaction fails, or updatePrice(priceCents,
\* timestamp) is confirmed.  With the node down only a failure is possible.
ContractReturn(i) ==
    /\ proc = "running"
    /\ runs[i].stage = "contract"
    /\ \E outcome \in IF chainUp THEN {"noBalance", "failed", "updated"}
                                 ELSE {"failed"} :
        /\ contractPrice' =
              IF outcome = "updated"
              THEN [price |-> priceCents(runs[i].data.price),
                    timestamp |-> runs[i].data.timestamp]
              ELSE contractPrice
        /\ afterContractUpdate(i, outcome)
    /\ UNCHANGED <<signalled, ticks, skipped, lastTrigger, prevResult, started,
                   contractConfigured, envVars, codecVars, apiVars, manualVars,
                   worldVars, streamVars, subVars>>

SignalNoExit ==
    /\ proc = "running"
    /\ signalled' = TRUE
    /\ timers' = IF retryTimeout THEN 0 ELSE timers
    /\ UNCHANGED <<proc, cronScheduled, isFetching, retryTimeout, runs, ticks,
                   skipped, lastTrigger, lastResult, prevResult, lastFailure,
                   started,
                   envVars, contractVars, codecVars, apiVars, manualVars, worldVars,
                   streamVars, subVars>>

\* The SIGINT / SIGTERM handler: clearTimeout(retryTimeout); process.exit(0).
\* Exiting ends the event loop: the cron job, every timer and every awaited
\* call of the process end with it.
Signal ==
    /\ proc = "running"
    /\ signalled' = TRUE
    /\ timers' = 0
    /\ cronScheduled' = FALSE
    /\ proc' = "shutdown"
    /\ UNCHANGED <<isFetching, retryTimeout, runs, ticks, skipped, lastTrigger,
                   lastResult, prevResult, lastFailure, started,
                   envVars, contractVars, codecVars, apiVars, manualVars, worldVars,
                   streamVars, subVars>>

\* ---------------------------------------------------- hooks/useBTCPrice

\* Number(priceUpdate.price) / 100, as dollars and cents.
priceUSD(cents) == [whole |-> cents \div 100, frac |-> cents % 100]

updateStatePriceOnly(priceUpdate) ==
    [price |-> priceUSD(priceUpdate.price),
     priceBigInt |-> -1,
     timestamp |-> -1,
     updater |-> NoAddress,
     isLoading |-> FALSE,
     error |-> NULL,
     lastUpdate |-> "Date"]

\* updateState(priceUpdate): every field is replaced.
updateState(priceUpdate) ==
    [price |-> priceUSD(priceUpdate.price),
     priceBigInt |-> priceUpdate.price,
     timestamp |-> priceUpdate.timestamp,
     updater |-> priceUpdate.updater,
     isLoading |-> FALSE,
     error |-> NULL,
     lastUpdate |-> "Date"]

\* The bytes at PRICE_DATA_ID while the store holds the record st:
\* publishPriceUpdate wrote encodePriceUpdate of it.
storedBytes(st) ==
    encodePriceUpdate([price |-> st.price, timestamp |-> st.timestamp,
                       updater |-> AddressLeaf(st.updater)])

\* decodePriceUpdate(data[0]) for the stored bytes.
decodeStored(st) ==
    LET out == decodePriceUpdate(StringInput(TRUE, storedBytes(st)))
    IN  IF out.ok
        THEN [kind |-> "data",
              rec |-> [price |-> out.price, timestamp |-> out.timestamp,
                       updater |-> out.updater.a]]
        ELSE [kind |-> "malformed", rec |-> NoRecord]

\* What sdk.streams.getAllPublisherDataForSchema and decodePriceUpdate can
\* make of the store holding st: a rejected read, data decodePriceUpdate
\* throws on, no data, or the decoded stored bytes.
ReadOutcomes(st) ==
    {[kind |-> "error", rec |-> NoRecord],
     [kind |-> "malformed", rec |-> NoRecord],
     IF st = NoRecord THEN [kind |-> "empty", rec |-> NoRecord]
     ELSE decodeStored(st)}

\* A read the node has not answered yet.
Unserved == [kind |-> "unserved", rec |-> NoRecord]

afterInitialReadQuiet(st, res, live) ==
    IF ~live THEN st
    ELSE IF res.kind = "error"
         THEN [st EXCEPT !.isLoading = FALSE, !.error = "Failed to fetch price"]
    ELSE IF res.kind = "empty"
         THEN [st EXCEPT !.isLoading = FALSE]
    ELSE IF res.kind = "malformed"
         THEN [st EXCEPT !.isLoading = FALSE, !.error = "Unsupported data format"]
    ELSE updateState(res.rec)

afterInitialReadStillLoading(st, res, live) ==
    IF ~live THEN st
    ELSE IF res.kind = "error"
         THEN [st EXCEPT !.error = "Failed to fetch price"]
    ELSE IF res.kind = "empty"
         THEN [st EXCEPT !.isLoading = FALSE, !.error = "No price data available yet"]
    ELSE IF res.kind = "malformed"
         THEN [st EXCEPT !.error = "Unsupported data format"]
    ELSE updateState(res.rec)

\* The state fetchCurrentPrice leaves once its read settled with res.
afterInitialRead(st, res, live) ==
    IF ~live THEN st
    ELSE IF res.kind = "error"
         THEN [st EXCEPT !.isLoading = FALSE, !.error = "Failed to fetch price"]
    ELSE IF res.kind = "empty"
         THEN [st EXCEPT !.isLoading = FALSE, !.error = "No price data available yet"]
    ELSE IF res.kind = "malformed"
         THEN [st EXCEPT !.isLoading = FALSE, !.error = "Unsupported data format"]
    ELSE updateState(res.rec)

\* The state onData leaves once its re-read settled with res: the record
\* replaces the state; no data, a rejection and a decode error change nothing.
afterReread(st, res, live) ==
    IF res.kind = "data" THEN updateState(res.rec) ELSE st

\* The effect runs: the configuration check, isSubscribed = true, and the
\* init function up to the read fetchCurrentPrice awaits.
Mount ==
    /\ iife = "unmounted"
    /\ IF ~hookConfigured
       THEN /\ state' = [state EXCEPT !.isLoading = FALSE,
                                      !.error = "Configuration missing"]
            /\ iife' = "noconfig"
            /\ UNCHANGED isSubscribed
       ELSE /\ isSubscribed' = TRUE
            /\ iife' = "read"
            /\ UNCHANGED state
    /\ UNCHANGED <<obsVars, hookConfigured, cleanedUp, subscription, notifs,
                   rereads,
                   schedVars,
                   envVars, contractVars, codecVars, apiVars, manualVars, worldVars,
                   streamVars>>

\* The initial read settles; fetchCurrentPrice returns and the init function
\* calls subscribeToUpdates, which awaits sdk.streams.subscribe.
InitialReadReturns ==
    /\ iife = "read"
    /\ \E res \in ReadOutcomes(store) :
        /\ state' = afterInitialRead(state, res, isSubscribed)
        /\ initialRes' = res.kind
    /\ iife' = "subscribing"
    /\ subscription' = "pending"
    /\ UNCHANGED <<rereadFaults, missed, hookConfigured, isSubscribed,
                   cleanedUp, notifs, rereads,
                   schedVars,
                   envVars, contractVars, codecVars, apiVars, manualVars, worldVars,
                   streamVars>>

\* sdk.streams.subscribe settles; the init function ends, and the cleanup
\* closure it returns is the value of a promise nobody reads.
SubscribeReturns ==
    /\ iife = "subscribing"
    /\ \E ok \in BOOLEAN :
        IF ok
        THEN subscription' = "active" /\ UNCHANGED state
        ELSE /\ subscription' = "failed"
             /\ state' = IF isSubscribed
                         THEN [state EXCEPT !.error = "Failed to subscribe to updates"]
                         ELSE state
    /\ iife' = "done"
    /\ UNCHANGED <<obsVars, hookConfigured, isSubscribed, cleanedUp, notifs,
                   rereads,
                   schedVars,
                   envVars, contractVars, codecVars, apiVars, manualVars, worldVars,
                   streamVars>>

\* The publisher's setAndEmitEvents is accepted while the hook is observed;
\* a live subscription is sent one notification per event.
ExternalPublish ==
    /\ writes < MaxPublishes
    /\ \E p \in Prices :
        LET priceData == [price |-> p, timestamp |-> clock]
        IN  setAndEmitEvents(dataStreams(priceData), eventStreams(priceData))
    /\ notifs' = IF subscription = "active" THEN notifs + (events' - events)
                 ELSE notifs
    /\ missed' = (missed \/ subscription # "active")
    /\ UNCHANGED <<initialRes, rereadFaults, hookConfigured, iife,
                   isSubscribed, cleanedUp, state,
                   subscription, rereads, schedVars,
                   envVars, contractVars, codecVars, apiVars, manualVars, worldVars>>

\* onData is called with a notification: it returns if the hook is stopped,
\* and starts a read of the latest record otherwise.
Deliver ==
    /\ notifs > 0
    /\ notifs' = notifs - 1
    /\ rereads' = IF isSubscribed THEN Append(rereads, Unserved) ELSE rereads
    /\ UNCHANGED <<obsVars, hookConfigured, iife, isSubscribed, cleanedUp,
                   state,
                   subscription, schedVars,
                   envVars, contractVars, codecVars, apiVars, manualVars, worldVars,
                   streamVars>>

\* The node answers a re-read with what the store holds at that moment.
ServeReread(i) ==
    /\ rereads[i] = Unserved
    /\ \E res \in ReadOutcomes(store) :
        /\ rereads' = [rereads EXCEPT ![i] = res]
        /\ rereadFaults' = (rereadFaults \/ res.kind # "data")
    /\ UNCHANGED <<initialRes, missed, hookConfigured, iife, isSubscribed,
                   cleanedUp, state,
                   subscription, notifs, schedVars,
                   envVars, contractVars, codecVars, apiVars, manualVars, worldVars,
                   streamVars>>

\* The answer to a re-read reaches onData, which resumes after its await.
RereadReturns(i) ==
    /\ rereads[i] # Unserved
    /\ state' = afterReread(state, rereads[i], isSubscribed)
    /\ rereads' = RemoveAt(rereads, i)
    /\ UNCHANGED <<obsVars, hookConfigured, iife, isSubscribed, cleanedUp,
                   subscription,
                   notifs, schedVars,
                   envVars, contractVars, codecVars, apiVars, manualVars, worldVars,
                   streamVars>>

\* The effect's cleanup (stop): isSubscribed = false, and nothing else.
Cleanup ==
    /\ isSubscribed
    /\ isSubscribed' = FALSE
    /\ cleanedUp' = TRUE
    /\ UNCHANGED <<obsVars, hookConfigured, iife, state, subscription,
                   notifs, rereads,
                   schedVars,
                   envVars, contractVars, codecVars, apiVars, manualVars, worldVars,
                   streamVars>>

\* ------------------------------------------------------- the outside world

ApiChange ==
    /\ apiUp' = ~apiUp
    /\ UNCHANGED <<chainUp, clock, schedVars,
                   envVars, contractVars, codecVars, apiVars, manualVars, streamVars,
                   subVars>>

ChainChange ==
    /\ chainUp' = ~chainUp
    /\ UNCHANGED <<apiUp, clock, schedVars,
                   envVars, contractVars, codecVars, apiVars, manualVars, streamVars,
                   subVars>>

TimePasses ==
    /\ clock < MaxClock
    /\ clock' = clock + 1
    /\ UNCHANGED <<apiUp, chainUp, schedVars,
                   envVars, contractVars, codecVars, apiVars, manualVars, streamVars,
                   subVars>>

\* ------------------------------------------------------ app/api/btc-price
NoData == [price |-> [whole |-> -1, frac |-> -1], timestamp |-> -1,
           updater |-> NoAddress]

NoResponse == [status |-> 0, success |-> FALSE, data |-> NoData, error |-> NULL]

\* NextResponse.json({success: false, error}, {status}).
Failure(status, error) ==
    [status |-> status, success |-> FALSE, data |-> NoData, error |-> error]

NotFoundAsSuccess ==
    [status |-> 200, success |-> TRUE, data |-> NoData, error |-> NULL]

\* The answer of GET when the read returns no data.
NotFound == Failure(404, "No price data available yet")

\* The answer of GET with a decoded record: the price in dollars, the time
\* and the updater (and both formatted), with the default status 200.
Success(priceUpdate) ==
    [status |-> 200, success |-> TRUE,
     data |-> [price |-> priceUSD(priceUpdate.price),
               timestamp |-> priceUpdate.timestamp,
               updater |-> priceUpdate.updater],
     error |-> NULL]

\* GET(req), with res what getAllPublisherDataForSchema and decodePriceUpdate
\* make of the store; the catch answers 500 with the error's message.
GET(schemaId, res) ==
    IF ~schemaId THEN Failure(500, "Schema not configured")
    ELSE IF res.kind = "error" THEN Failure(500, "Failed to fetch price")
    ELSE IF res.kind = "empty" THEN NotFound
    ELSE IF res.kind = "malformed" THEN Failure(500, "Unsupported data format")
    ELSE Success(res.rec)

\* A GET request is served: the handler runs to its response.  The read is
\* not made when the schema id is missing.
GetRequest ==
    /\ \E res \in ReadOutcomes(store) :
        /\ response' = GET(routeSchemaId, res)
        /\ routeRead' = IF routeSchemaId THEN res.kind ELSE "none"
    /\ served' = 1 - served
    /\ UNCHANGED <<routeSchemaId, schedVars, envVars, contractVars, worldVars, streamVars,
                   subVars, codecVars, manualVars>>

\* --- POST
NoPostResponse ==
    [status |-> 0, success |-> FALSE, data |-> NoData, error |-> NULL,
     message |-> NULL]

NoCycle == [published |-> NoRecord, failure |-> "none"]

\* NextResponse.json({success: false, error}, {status}).
PostFailure(status, error) ==
    [status |-> status, success |-> FALSE, data |-> NoData, error |-> error,
     message |-> NULL]

\* The answer of POST when fetchAndPublishPrice returned false: the error it
\* caught is not at hand, the text is fixed.
CycleFailed == PostFailure(500, "Failed to fetch and publish price")

\* The answer of POST when the read after the publish returns no data.
PostNoData ==
    [status |-> 200, success |-> TRUE, data |-> NoData, error |-> NULL,
     message |-> "Price updated but data not yet available"]

\* The answer of POST with the record it read back.
PostSuccess(priceUpdate) ==
    [status |-> 200, success |-> TRUE,
     data |-> [price |-> priceUSD(priceUpdate.price),
               timestamp |-> priceUpdate.timestamp,
               updater |-> priceUpdate.updater],
     error |-> NULL, message |-> "Price updated successfully"]

\* The answer of POST once its read settled with res.
afterPostRead(res) ==
    IF res.kind = "error" THEN PostFailure(500, "Failed to update price")
    ELSE IF res.kind = "malformed" THEN PostFailure(500, "Unsupported data format")
    ELSE IF res.kind = "empty" THEN PostNoData
    ELSE PostSuccess(res.rec)

\* A POST request arrives.  Without the schema id it is answered at once;
\* without the API key fetchBTCPrice throws before its request and
\* fetchAndPublishPrice returns false; otherwise the handler is suspended at
\* axios.get.
PostRequest ==
    /\ postCount < MaxPosts
    /\ postCount' = postCount + 1
    /\ IF ~routeSchemaId
       THEN /\ postResponse' = PostFailure(500, "Schema not configured")
            /\ postCycle' = [published |-> NoRecord, failure |-> "config"]
            /\ UNCHANGED posts
       ELSE IF ~cmcApiKey
       THEN /\ postResponse' = CycleFailed
            /\ postCycle' = [published |-> NoRecord, failure |-> "fetch"]
            /\ UNCHANGED posts
       ELSE /\ posts' = Append(posts, [stage |-> "fetch",
                                       data |-> [price |-> -1, timestamp |-> -1],
                                       published |-> NoRecord])
            /\ UNCHANGED <<postResponse, postCycle>>
    /\ UNCHANGED <<schedVars, envVars, contractVars, worldVars, streamVars, subVars, codecVars,
                   apiVars>>

\* axios.get settles for the handler posts[i]: with a quote,
\* publishPriceUpdate runs up to its await; otherwise fetchAndPublishPrice
\* returns false and the handler answers.
PostFetchReturn(i) ==
    /\ posts[i].stage = "fetch"
    /\ IF ~fetchBTCPriceThrows(apiUp)
       THEN /\ \E p \in Prices :
                 posts' = [posts EXCEPT ![i] =
                              [@ EXCEPT !.stage = "publish",
                                        !.data = [price |-> p, timestamp |-> clock]]]
            /\ UNCHANGED <<postResponse, postCycle>>
       ELSE /\ posts' = RemoveAt(posts, i)
            /\ postResponse' = CycleFailed
            /\ postCycle' = [published |-> NoRecord, failure |-> "fetch"]
    /\ UNCHANGED <<postCount, schedVars, envVars, contractVars, worldVars, streamVars, subVars,
                   codecVars, apiVars>>

\* setAndEmitEvents settles for the handler posts[i]: accepted, the record is
\* written, the event emitted (a live subscription is notified) and the
\* handler reads the store; rejected, fetchAndPublishPrice returns false.
PostPublishReturn(i) ==
    /\ posts[i].stage = "publish"
    /\ IF chainUp
       THEN /\ setAndEmitEvents(dataStreams(posts[i].data),
                                eventStreams(posts[i].data))
            /\ posts' = [posts EXCEPT ![i] =
                            [@ EXCEPT !.stage = "read",
                                      !.published = priceRecord(posts[i].data)]]
            /\ notifs' = IF subscription = "active"
                         THEN notifs + (events' - events) ELSE notifs
            /\ missed' = (missed \/ subscription # "active")
            /\ UNCHANGED <<postResponse, postCycle>>
       ELSE /\ posts' = RemoveAt(posts, i)
            /\ postResponse' = CycleFailed
            /\ postCycle' = [published |-> NoRecord, failure |-> "publish"]
            /\ UNCHANGED <<streamVars, notifs, missed>>
    /\ UNCHANGED <<postCount, initialRes, rereadFaults, hookConfigured, iife,
                   isSubscribed, cleanedUp, state, subscription, rereads,
                   schedVars, envVars, contractVars, worldVars, codecVars, apiVars>>

\* The read after the publish settles for the handler posts[i], which answers.
PostReadReturn(i) ==
    /\ posts[i].stage = "read"
    /\ \E res \in ReadOutcomes(store) :
        /\ postResponse' = afterPostRead(res)
        /\ postCycle' = [published |-> posts[i].published,
                         failure |-> IF res.kind \in {"error", "malformed"}
                                     THEN "read" ELSE "none"]
    /\ posts' = RemoveAt(posts, i)
    /\ UNCHANGED <<postCount, schedVars, envVars, contractVars, worldVars, streamVars, subVars,
                   codecVars, apiVars>>

PostStepWhenIdle ==
    /\ ~isFetching
    /\ \E i \in 1..Len(posts) :
        PostFetchReturn(i) \/ PostPublishReturn(i) \/ PostReadReturn(i)

\* An awaited call of a POST handler settles.
PostStep ==
    \E i \in 1..Len(posts) :
        PostFetchReturn(i) \/ PostPublishReturn(i) \/ PostReadReturn(i)

\* ---------------------------------------------------------- specification

InitScheduler ==
    /\ proc = "loading"
    /\ signalled = FALSE
    /\ isFetching = FALSE
    /\ retryTimeout = FALSE
    /\ timers = 0
    /\ cronScheduled = FALSE
    /\ runs = << >>
    /\ ticks = 0
    /\ skipped = 0
    /\ lastTrigger = "none"
    /\ lastResult = "none"
    /\ prevResult = "none"
    /\ lastFailure = "none"
    /\ started = 0

\* The contract before any updatePrice call.
NoContractPrice == [price |-> -1, timestamp |-> -1]

InitContract ==
    /\ contractPrice = NoContractPrice
    /\ contractOutcome = "none"

InitStream ==
    /\ clock = 0
    /\ store = NoRecord
    /\ writes = 0
    /\ events = 0
    /\ contractConfigured = FALSE
    /\ InitContract

InitSubscriber ==
    /\ hookConfigured \in BOOLEAN
    /\ iife = "unmounted"
    /\ isSubscribed = FALSE
    /\ cleanedUp = FALSE
    /\ state = InitialState
    /\ subscription = "none"
    /\ notifs = 0
    /\ rereads = << >>
    /\ initialRes = "none"
    /\ rereadFaults = FALSE
    /\ missed = FALSE

InitRequests ==
    /\ response = NoResponse
    /\ routeRead = "none"
    /\ served = 0
    /\ posts = << >>
    /\ postCount = 0
    /\ postResponse = NoPostResponse
    /\ postCycle = NoCycle

InitCodec ==
    /\ codecRec = NoCodecRecord
    /\ codecIn = NoInput
    /\ codecOut = Thrown
    /\ codecVia = "none"
    /\ codecPc = "start"

InitRoute ==
    /\ routeSchemaId = TRUE
    /\ InitRequests

\* The price fetcher service, from the start of the script.
Init ==
    /\ InitScheduler
    /\ publisherAddress = PublisherAddress
    /\ InitStream
    /\ InitSubscriber
    /\ InitCodec
    /\ InitRoute
    /\ hookConfigured = TRUE
    /\ envFileLoaded \in BOOLEAN
    /\ cmcApiKey \in BOOLEAN
    /\ priceSchemaId \in BOOLEAN
    /\ apiUp \in BOOLEAN
    /\ chainUp \in BOOLEAN

RunStep == \E i \in 1..Len(runs) : FetchReturn(i) \/ PublishReturn(i)

Next ==
    \/ Startup
    \/ Tick
    \/ RetryFire
    \/ \E i \in 1..Len(runs) : FetchReturn(i)
    \/ \E i \in 1..Len(runs) : PublishReturn(i)
    \/ Signal
    \/ ApiChange
    \/ ChainChange
    \/ TimePasses

Spec == Init /\ [][Next]_vars

\* The service with no shutdown signal, every retry timer eventually firing
\* and every awaited external call eventually settling.
NextLive ==
    \/ Startup
    \/ Tick
    \/ RetryFire
    \/ RunStep
    \/ ApiChange
    \/ ChainChange

LiveSpec ==
    /\ Init
    /\ [][NextLive]_vars
    /\ WF_vars(RetryFire)
    /\ WF_vars(RunStep)

\* The component using useBTCPrice, beside a publisher that is configured
\* and whose publishes are accepted.
InitHook ==
    /\ InitScheduler
    /\ publisherAddress = PublisherAddress
    /\ InitStream
    /\ InitSubscriber
    /\ InitCodec
    /\ InitRoute
    /\ envFileLoaded = TRUE
    /\ cmcApiKey = TRUE
    /\ priceSchemaId = TRUE
    /\ apiUp = TRUE
    /\ chainUp = TRUE

NextHook ==
    \/ Mount
    \/ InitialReadReturns
    \/ SubscribeReturns
    \/ ExternalPublish
    \/ Deliver
    \/ \E i \in 1..Len(rereads) : ServeReread(i)
    \/ \E i \in 1..Len(rereads) : RereadReturns(i)
    \/ Cleanup
    \/ TimePasses

HookSpec == InitHook /\ [][NextHook]_vars

\* A caller of lib/encoding.ts: a record is encoded, or arrives in the SDK's
\* decoded form, or something else arrives, and decodePriceUpdate is applied.
InitCodecCaller ==
    /\ InitScheduler
    /\ publisherAddress = PublisherAddress
    /\ InitStream
    /\ InitSubscriber
    /\ InitRoute
    /\ hookConfigured = TRUE
    /\ envFileLoaded = TRUE
    /\ cmcApiKey = TRUE
    /\ priceSchemaId = TRUE
    /\ apiUp = TRUE
    /\ chainUp = TRUE
    /\ codecRec \in CodecRecords
    /\ codecIn = NoInput
    /\ codecOut = Thrown
    /\ codecVia = "none"
    /\ codecPc = "start"

NextCodec ==
    \/ Encode
    \/ Wrap
    \/ Other
    \/ Decode

CodecSpec == InitCodecCaller /\ [][NextCodec]_vars

\* The route app/api/btc-price serving GET and POST requests beside another
\* publisher (the price fetcher service) whose publishes are accepted.
InitApi ==
    /\ InitScheduler
    /\ publisherAddress = PublisherAddress
    /\ InitStream
    /\ InitSubscriber
    /\ InitCodec
    /\ InitRequests
    /\ routeSchemaId \in BOOLEAN
    /\ hookConfigured = TRUE
    /\ envFileLoaded = TRUE
    /\ cmcApiKey = TRUE
    /\ priceSchemaId = TRUE
    /\ apiUp = TRUE
    /\ chainUp = TRUE

NextApi ==
    \/ ExternalPublish
    \/ GetRequest
    \/ PostRequest
    \/ \E i \in 1..Len(posts) : PostFetchReturn(i)
    \/ \E i \in 1..Len(posts) : PostPublishReturn(i)
    \/ \E i \in 1..Len(posts) : PostReadReturn(i)
    \/ ApiChange
    \/ ChainChange
    \/ TimePasses

ApiSpec == InitApi /\ [][NextApi]_vars

\* One publisher address, written in either case, a manual-trigger cycle
\* publishing under it, and the two readers: GET and the hook's initial read.
InitEndToEnd ==
    /\ InitScheduler
    /\ InitStream
    /\ InitSubscriber
    /\ InitCodec
    /\ InitRoute
    /\ publisherAddress \in {PublisherAddress,
                             [PublisherAddress EXCEPT !.casing = "lower"]}
    /\ hookConfigured = TRUE
    /\ envFileLoaded = TRUE
    /\ cmcApiKey = TRUE
    /\ priceSchemaId = TRUE
    /\ apiUp = TRUE
    /\ chainUp = TRUE

NextEndToEnd ==
    \/ PostRequest
    \/ \E i \in 1..Len(posts) : PostFetchReturn(i)
    \/ \E i \in 1..Len(posts) : PostPublishReturn(i)
    \/ \E i \in 1..Len(posts) : PostReadReturn(i)
    \/ GetRequest
    \/ Mount
    \/ InitialReadReturns
    \/ SubscribeReturns
    \/ TimePasses

EndToEndSpec == InitEndToEnd /\ [][NextEndToEnd]_vars

\* The price fetcher service and the endpoint's manual trigger side by side,
\* publishing to the same key, with a mounted subscriber.
InitTrigger ==
    /\ InitScheduler
    /\ publisherAddress = PublisherAddress
    /\ InitStream
    /\ InitSubscriber
    /\ InitCodec
    /\ InitRoute
    /\ hookConfigured = TRUE
    /\ envFileLoaded = TRUE
    /\ cmcApiKey = TRUE
    /\ priceSchemaId = TRUE
    /\ apiUp \in BOOLEAN
    /\ chainUp = TRUE

NextTrigger ==
    \/ Startup
    \/ Tick
    \/ RetryFire
    \/ RunStep
    \/ PostRequest
    \/ PostStep
    \/ Mount
    \/ InitialReadReturns
    \/ SubscribeReturns

TriggerSpec == InitTrigger /\ [][NextTrigger]_vars

\* The two publishers of the fixed key, the scheduler and the manual
\* trigger, while the clock advances and the source and transport are up.
InitRace ==
    /\ InitScheduler
    /\ publisherAddress = PublisherAddress
    /\ InitStream
    /\ InitSubscriber
    /\ InitCodec
    /\ InitRoute
    /\ hookConfigured = TRUE
    /\ envFileLoaded = TRUE
    /\ cmcApiKey = TRUE
    /\ priceSchemaId = TRUE
    /\ apiUp = TRUE
    /\ chainUp = TRUE

NextRace ==
    \/ Startup
    \/ Tick
    \/ RunStep
    \/ PostRequest
    \/ PostStep
    \/ TimePasses

RaceSpec == InitRace /\ [][NextRace]_vars

\* The price fetcher service running the pipeline that also updates the
\* contract, with the contract's settings present or missing.
InitContractPipeline ==
    /\ InitScheduler
    /\ publisherAddress = PublisherAddress
    /\ clock = 0
    /\ store = NoRecord
    /\ writes = 0
    /\ events = 0
    /\ contractConfigured \in BOOLEAN
    /\ InitContract
    /\ InitSubscriber
    /\ InitCodec
    /\ InitRoute
    /\ hookConfigured = TRUE
    /\ envFileLoaded = TRUE
    /\ cmcApiKey = TRUE
    /\ priceSchemaId = TRUE
    /\ apiUp \in BOOLEAN
    /\ chainUp \in BOOLEAN

NextContractPipeline ==
    \/ Startup
    \/ Tick
    \/ RetryFire
    \/ \E i \in 1..Len(runs) : FetchReturn(i)
    \/ \E i \in 1..Len(runs) : PublishThenContract(i)
    \/ \E i \in 1..Len(runs) : ContractReturn(i)
    \/ ApiChange
    \/ ChainChange
    \/ TimePasses

ContractPipelineSpec == InitContractPipeline /\ [][NextContractPipeline]_vars

\* ------------------------------------------------------------------ claims

ConfigMissing == ~cmcApiKey \/ ~priceSchemaId
Healthy == apiUp /\ chainUp /\ ~ConfigMissing
SchedulerIdle == ~isFetching /\ ~retryTimeout /\ runs = << >>

\* C1: single-flight.  At most one scheduler-driven pipeline execution is in
\* flight in every reachable state, however many cadence ticks fire while it
\* runs.
C1_SingleFlight == Len(runs) <= 1

\* Two cadence ticks have fired during the one execution in flight.
C1_Witness == Len(runs) = 1 /\ skipped >= 2

\* C2: retry bound-of-one.  At most one retry timer is pending in every
\* reachable state, and it is the one retryTimeout holds.
C2_OneRetryTimer == timers <= 1 /\ (timers = 1 => retryTimeout)

\* A retry timer is pending after a failure and two cadence ticks have fired
\* since.
C2_Witness == timers = 1 /\ lastResult = "false" /\ skipped >= 2

\* C3: a failure of fetch or publish never leaves the run as an exception
\* (the process never dies of one), and an execution that follows a failed
\* one is always started by the retry timer, never by a cadence tick.
C3_FailureBecomesRetry ==
    /\ proc # "fatal"
    /\ lastResult # "throw"
    /\ (prevResult = "false" => lastTrigger = "retry")

\* After a failed publish and a cadence tick, the retry timer started the
\* execution now in flight.
C3_Witness ==
    /\ prevResult = "false"
    /\ lastFailure = "publish"
    /\ lastTrigger = "retry"
    /\ ticks >= 1
    /\ Len(runs) = 1

\* C4: post-stop silence.  Once the effect's cleanup has run, no step
\* changes the state the hook exposes.
C4_PostStopSilence == [][cleanedUp => state' = state]_vars

\* C5: stop cancels the subscription.  Once the cleanup has run and
\* subscription setup has resolved, the subscription is no longer live,
\* whether the cleanup ran before or after setup resolved.
C5_StopCancelsSubscription ==
    (cleanedUp /\ iife = "done") => subscription # "active"

\* C6: an execution in flight when the shutdown signal arrives can still run
\* to completion.
C6_InFlightRunCompletes == (signalled /\ runs # << >>) => ENABLED RunStep

\* C7: once the shutdown signal has arrived no retry timer is pending, the
\* cadence driver is stopped, and no execution is started and no timer armed.
C7_ShutdownStopsTimers ==
    /\ [](signalled => (timers = 0 /\ ~cronScheduled))
    /\ [][signalled => (started' = started /\ timers' = timers
                        /\ Len(runs') <= Len(runs))]_vars

\* The signal arrived while a retry timer was pending, after cadence ticks.
C7_Witness == signalled /\ retryTimeout /\ timers = 0 /\ ticks >= 1

\* C8: with a required configuration value missing, no execution is ever
\* started and no retry timer armed.
C8_MissingConfigRefused ==
    ConfigMissing => (lastTrigger = "none" /\ timers = 0 /\ ~retryTimeout)

\* C9: without shutdown, each failed execution is followed by another one,
\* and if fetch and publish stop failing for good the execution in progress
\* or pending ends in a success that leaves the scheduler Idle.
C9_RetriesLive ==
    /\ (lastResult = "false" /\ started = 0) ~> (started = 1)
    /\ (lastResult = "false" /\ started = 1) ~> (started = 0)
    /\ (<>[]Healthy) => (isFetching ~> (SchedulerIdle /\ lastResult = "true"))

\* The scheduler is Idle after a success that followed a failure and its
\* retry.
C9_Witness ==
    /\ SchedulerIdle
    /\ lastResult = "true"
    /\ prevResult = "false"
    /\ lastTrigger = "retry"

\* C10: records written and events emitted stay equal in number; a step
\* that changes either adds exactly one of each and is a successful publish;
\* a rejected publish changes neither and ends the execution.
C10_WriteAndEmitTogether ==
    /\ [](writes = events)
    /\ [][(writes' # writes \/ events' # events) =>
            (/\ writes' = writes + 1
             /\ events' = events + 1
             /\ lastResult' = "true"
             /\ Len(runs') = Len(runs) - 1)]_vars
    /\ [][(lastResult' = "false" /\ lastFailure' = "publish"
           /\ Len(runs') < Len(runs)) =>
            (/\ writes' = writes /\ events' = events /\ store' = store
             /\ \A i \in 1..Len(runs') : runs'[i] \in {runs[j] : j \in 1..Len(runs)})]_vars

\* A publish was rejected after two had succeeded.
C10_Witness ==
    /\ writes = 2
    /\ events = 2
    /\ lastResult = "false"
    /\ lastFailure = "publish"
    /\ cmcApiKey /\ priceSchemaId

\* C11: within one run the publish begins only after the fetch has completed
\* successfully: a run that reaches publishPriceUpdate carries a fetched quote
\* and is the only thing that writes, and a run that ends in its fetch stage
\* writes no record and emits no event.
C11_PublishAfterFetch ==
    [][ /\ \A i \in 1..Len(runs') :
              runs'[i].stage = "publish" =>
                  /\ runs'[i].data.price \in Prices
                  /\ runs'[i].data.timestamp \in 0..MaxClock
        /\ \A i \in 1..Len(runs) :
              (runs[i].stage = "fetch" /\ runs' = RemoveAt(runs, i)) =>
                  UNCHANGED streamVars
        /\ (streamVars' # streamVars) =>
              \E i \in 1..Len(runs) :
                  /\ runs[i].stage = "publish"
                  /\ runs' = RemoveAt(runs, i)
                  /\ store' = priceRecord(runs[i].data) ]_vars

\* A run is publishing its quote after an earlier run failed in its fetch and
\* a still earlier one published.
C11_Witness ==
    /\ lastFailure = "fetch"
    /\ writes >= 1
    /\ Len(runs) = 1
    /\ runs[1].stage = "publish"

\* What decodePriceUpdate returned, as a record.
Decoded ==
    [price |-> codecOut.price, timestamp |-> codecOut.timestamp,
     updater |-> codecOut.updater]

RoundTripDone == codecPc = "done" /\ codecVia = "encode" /\ encodable(codecRec)

\* C12 (as stated): for every valid record r (price in uint256, timestamp in
\* uint64, updater an address), decodePriceUpdate(encodePriceUpdate(r))
\* equals r.
C12_RoundTrip == RoundTripDone => (codecOut.ok /\ Decoded = codecRec)

\* C12 (amended): decodePriceUpdate(encodePriceUpdate(r)) returns r's price
\* and timestamp and r's updater in checksum case; it equals r exactly when
\* r's updater is written in checksum case.
C12_RoundTripChecksummed ==
    RoundTripDone =>
        /\ codecOut.ok
        /\ Decoded = [codecRec EXCEPT
                        !.updater = AddressLeaf(checksumAddress(codecRec.updater.a))]
        /\ (Decoded = codecRec) <=> (codecRec.updater.a.casing = "checksum")

\* The largest price and timestamp with a lower-case updater went through
\* encodePriceUpdate and decodePriceUpdate.
C12_Witness ==
    /\ RoundTripDone
    /\ codecRec.price = MaxUint256
    /\ codecRec.timestamp = MaxUint64
    /\ codecRec.updater.a.casing = "lower"
    /\ codecOut.ok

WrapDone == codecPc = "done" /\ codecVia = "wrap"

\* What decodePriceUpdate returns for the encoded bytes of codecRec.
FromBytes == decodePriceUpdate(StringInput(TRUE, encodePriceUpdate(codecRec)))

\* C13 (as stated): decodePriceUpdate returns the same record whether it is
\* given the raw encoded bytes or the field sequence wrapped one or two
\* levels deep in {value: ...} objects, each integer field a string, a
\* number, a bigint or itself wrapped.
C13_DecodeRobust == WrapDone => (codecOut.ok /\ codecOut = FromBytes)

\* C13 (amended): for the field sequence of a record wrapped at any depth
\* inside the first element of an array, with any of the field types,
\* decodePriceUpdate returns the record as written; its price and timestamp
\* are those decoded from the raw bytes and its updater is the one decoded
\* from the raw bytes up to letter case, so both results are equal exactly
\* when the wrapped updater is written in checksum case.
C13_DecodeRobustUpToCase ==
    WrapDone =>
        /\ codecOut.ok
        /\ Decoded = codecRec
        /\ FromBytes.ok
        /\ codecOut.price = FromBytes.price
        /\ codecOut.timestamp = FromBytes.timestamp
        /\ codecOut.updater.a.nib = FromBytes.updater.a.nib
        /\ (codecOut = FromBytes) <=> (codecRec.updater.a.casing = "checksum")

\* A record wrapped two levels deep, its price a string and its timestamp a
\* wrapped number, was decoded to what its raw bytes decode to.
C13_Witness ==
    /\ WrapDone
    /\ codecIn.depth = 2
    /\ codecIn.values[1].t = "decimal"
    /\ codecIn.values[2].t = "number"
    /\ codecIn.values[2].w = 1
    /\ codecIn.values[3].w = 1
    /\ codecOut = FromBytes

DecodeDone == codecPc = "done" /\ (codecVia = "encode" => encodable(codecRec))

\* C14 (as stated): decodePriceUpdate raises an error for every input that
\* is an array with fewer than 3 elements and for every input that is
\* neither an array nor a hex string.
C14_DecodeFailure ==
    DecodeDone =>
        (((codecIn.outer = "array" /\ codecIn.len < 3)
          \/ codecIn.outer \notin {"array", "hexstring"}) => ~codecOut.ok)

\* Inputs with no field sequence of three elements in them.
NoFieldSequence(data) ==
    \/ data.outer \notin {"array", "hexstring"}
    \/ data.outer = "array" /\ data.len = 0
    \/ data.outer = "array" /\ data.first = "other"
    \/ data.outer = "array" /\ data.first = "wrapper"
           /\ (data.inner # "array" \/ Len(data.values) < 3)
    \/ (data.outer = "hexstring" \/ data.first = "hexstring")
           /\ Len(data.bytes) < 3 * WordDigits

\* C14 (amended): decodePriceUpdate raises an error for every input that is
\* neither an array nor a hex string, for an empty array, for an array whose
\* first element is neither a hex string nor a {value: ...} object, for a
\* wrapped value that is no sequence or has fewer than 3 elements, and for
\* hex data shorter than the three words; an array of one element decodes
\* when that element is the encoded bytes or a wrapped sequence of the three
\* fields.
C14_DecodeFailureOfFieldSequence ==
    DecodeDone =>
        /\ NoFieldSequence(codecIn) => ~codecOut.ok
        /\ (codecVia \in {"encode", "wrap"}) => (codecIn.len <= 1 /\ codecOut.ok)

\* A wrapped sequence of two fields was refused.
C14_Witness ==
    /\ DecodeDone
    /\ codecIn.first = "wrapper"
    /\ codecIn.inner = "array"
    /\ Len(codecIn.values) = 2
    /\ ~codecOut.ok

\* C15: decodePriceUpdate either raises an error or returns a complete record
\* whose price and timestamp are integers taken from integer fields and
\* whose updater is an address string; it never returns a record with a
\* missing, defaulted or wrongly typed field.
C15_NoPartialDecode ==
    (DecodeDone /\ codecOut.ok) =>
        /\ codecOut.updater.t = "address"
        /\ codecIn.first = "wrapper" =>
               \A i \in 1..2 : codecIn.values[i].t \in {"bigint", "number", "decimal"}

\* The initial read settles while the hook is live.
InitialReadSettles == iife = "read" /\ iife' = "subscribing" /\ isSubscribed

\* C16 (as stated): when the initial read succeeds but the store holds no
\* record, the hook exposes the loading flag false and no error message; an
\* error message is exposed only when the read or the decode fails.
C16_UnavailableIsNoError ==
    [][InitialReadSettles =>
          /\ initialRes' = "empty" => (~state'.isLoading /\ state'.error = NULL)
          /\ state'.error # NULL => initialRes' \in {"error", "malformed"}]_vars

\* C16 (amended): when the initial read succeeds but the store holds no
\* record, the hook exposes the loading flag false, no record, and the
\* message "No price data available yet" in its error field; a read or
\* decode failure exposes another message, and a record exposes none.
C16_UnavailableIsMessage ==
    [][InitialReadSettles =>
          /\ initialRes' = "empty" =>
                /\ store = NoRecord
                /\ state' = [InitialState EXCEPT
                                !.isLoading = FALSE,
                                !.error = "No price data available yet"]
          /\ initialRes' \in {"error", "malformed"} =>
                /\ ~state'.isLoading
                /\ state'.error \in {"Failed to fetch price",
                                     "Unsupported data format"}
          /\ initialRes' = "data" => state'.error = NULL]_vars

\* The initial read found no record and the hook went on to subscribe.
C16_Witness ==
    /\ initialRes = "empty"
    /\ iife = "subscribing"
    /\ isSubscribed
    /\ ~state.isLoading
    /\ state.error = "No price data available yet"

\* The record the hook exposes is the one the store holds.
ExposedIsStored ==
    /\ state.priceBigInt = store.price
    /\ state.timestamp = store.timestamp
    /\ state.updater = store.updater

\* C17: last write observed.  With the subscription live through every
\* publish, the hook not stopped, every notification delivered and every
\* re-read it triggered answered with the stored record and resolved, the
\* exposed record equals the latest record in the store, whatever the order
\* of the deliveries and of the completions.
C17_LastWriteObserved ==
    (/\ subscription = "active"
     /\ isSubscribed
     /\ writes >= 1
     /\ ~missed
     /\ ~rereadFaults
     /\ notifs = 0
     /\ rereads = << >>) => ExposedIsStored

\* C18: whenever a record read by the hook fails to decode, in the initial
\* read or in a re-read triggered by a notification, the exposed state shows
\* an error message afterwards.
C18_DecodeFailureShown ==
    [][ /\ (InitialReadSettles /\ initialRes' = "malformed") => state'.error # NULL
        /\ \A i \in 1..Len(rereads) :
              (/\ isSubscribed
               /\ rereads[i].kind = "malformed"
               /\ rereads' = RemoveAt(rereads, i)) => state'.error # NULL ]_vars

\* C19: whenever the hook exposes an error message its loading flag is false.
C19_ErrorMeansLoaded == state.error # NULL => ~state.isLoading

\* The subscription could not be set up after the initial read found a
\* record: the only message exposed is the subscription's.
C19_Witness ==
    /\ subscription = "failed"
    /\ initialRes = "data"
    /\ state.error = "Failed to subscribe to updates"
    /\ ~state.isLoading

\* C20: GET answers 200 with the decoded stored record exactly when the
\* schema id is set and the store's record is read and decoded, 404 exactly
\* when the read finds that nothing was published, and 500 on a missing
\* schema id, a failed read and a failed decode; it never answers success
\* without a record.
C20_GetAnswers ==
    [][served' # served =>
          /\ response'.status \in {200, 404, 500}
          /\ (response'.status = 200) <=> (routeSchemaId /\ routeRead' = "data")
          /\ response'.status = 200 =>
                /\ store # NoRecord
                /\ response' = Success(store)
          /\ (response'.status = 404) <=> (routeSchemaId /\ routeRead' = "empty")
          /\ response'.status = 404 => store = NoRecord
          /\ (response'.status = 500) <=>
                (~routeSchemaId \/ routeRead' \in {"error", "malformed"})
          /\ response'.success <=> (response'.status = 200)
          /\ response'.success => response'.data # NoData]_vars

\* The latest of an even number of requests was answered 200 with the record
\* of the last publish.
C20_Witness ==
    /\ response.status = 200
    /\ response.success
    /\ response = Success(store)
    /\ writes = MaxPublishes
    /\ served = 0

\* C21: each POST request runs one fetch+publish cycle and its response is
\* either the decoded record resulting from that cycle with a success status
\* or an error payload with an error status.
C21_PostAnswersItsCycle ==
    [][\A i \in 1..Len(posts) :
          (posts[i].stage = "read" /\ posts' = RemoveAt(posts, i)) =>
              \/ /\ postResponse'.status = 200
                 /\ postResponse'.success
                 /\ postResponse' = PostSuccess(decodeStored(posts[i].published).rec)
              \/ /\ postResponse'.status = 500
                 /\ ~postResponse'.success
                 /\ postResponse'.error # NULL]_vars

\* The message of the error fetchAndPublishPrice caught.
UnderlyingMessage(why) ==
    IF why = "fetch" THEN "Request failed with status code 429"
    ELSE "Failed to publish price update"

\* C22: when the fetch+publish cycle of a POST request fails, the response
\* has an error status and its error message is the message of the
\* underlying upstream or publish failure.
C22_PostPropagatesMessage ==
    [][\A i \in 1..Len(posts) :
          (/\ posts[i].stage \in {"fetch", "publish"}
           /\ posts' = RemoveAt(posts, i)) =>
              /\ postResponse'.status = 500
              /\ postResponse'.error = UnderlyingMessage(postCycle'.failure)]_vars

\* The step writes the record of the quote fetched by posts[i]: the price is
\* floor(p * 100) (p is held in thousandths), the timestamp is the quote's
\* and the updater is the configured address as written.
WritesQuote(i) ==
    /\ posts[i].stage = "publish"
    /\ 10 * store'.price <= posts[i].data.price
    /\ posts[i].data.price < 10 * store'.price + 10
    /\ store'.timestamp = posts[i].data.timestamp
    /\ store'.updater = publisherAddress

\* A read returns the stored integer price, that integer divided by 100, and
\* the stored timestamp, with the updater u.
ReadsBack(raw, decimal, timestamp, updater, u) ==
    /\ raw = store.price
    /\ decimal.whole * 100 + decimal.frac = store.price
    /\ decimal.frac \in 0..99
    /\ timestamp = store.timestamp
    /\ updater = u
    /\ store.price = 10000000 => decimal = [whole |-> 100000, frac |-> 0]

SchedulerState ==
    IF runs # << >> THEN "Running"
    ELSE IF retryTimeout THEN "RetryPending"
    ELSE "Idle"

\* An execution started in this step and failed before its first await (the
\* API key is missing): the step passes through Running.
RanThrough == started' # started /\ runs' = << >> /\ lastResult' = "false"

\* C24: the scheduler's state changes only from Idle to Running (a cadence
\* tick or the run at startup), Running to Idle (success), Running to
\* RetryPending (failure, arming the timer) and RetryPending to Running (the
\* retry timer fires); a pending retry timer always has the busy flag set,
\* and a cadence tick in RetryPending starts no run and arms no timer.
C24_StateMachine ==
    /\ [](retryTimeout => isFetching)
    /\ [](timers > 0 => retryTimeout)
    /\ [][ /\ SchedulerState' # SchedulerState =>
                \/ /\ SchedulerState = "Idle"
                   /\ SchedulerState' = "Running"
                   /\ started' # started
                   /\ lastTrigger' \in {"tick", "initial"}
                \/ /\ SchedulerState = "Running"
                   /\ SchedulerState' = "Idle"
                   /\ lastResult' = "true"
                   /\ ~isFetching'
                   /\ timers' = timers
                \/ /\ SchedulerState = "Running"
                   /\ SchedulerState' = "RetryPending"
                   /\ lastResult' = "false"
                   /\ timers' = timers + 1
                \/ /\ SchedulerState = "RetryPending"
                   /\ SchedulerState' = "Running"
                   /\ lastTrigger' = "retry"
                   /\ timers' = timers - 1
                \/ /\ SchedulerState = "Idle"
                   /\ SchedulerState' = "RetryPending"
                   /\ RanThrough
                   /\ lastTrigger' \in {"tick", "initial"}
                   /\ timers' = timers + 1
           /\ (SchedulerState = "RetryPending" /\ ticks' # ticks) =>
                /\ UNCHANGED <<runs, timers, retryTimeout, isFetching, started>>
                /\ skipped' = skipped + 1 ]_vars

\* A run failed, the retry timer started the next run, which failed too: its
\* retry is pending with the busy flag set, and a cadence tick since the
\* retry run began was skipped.
C24_Witness ==
    /\ SchedulerState = "RetryPending"
    /\ cmcApiKey
    /\ lastTrigger = "retry"
    /\ prevResult = "false"
    /\ skipped >= 1
    /\ timers = 1
    /\ isFetching

\* The step is the return of the awaited call of the execution in flight:
\* the fetch returns and the publish is called, or the execution ends.
CallReturns ==
    \/ /\ Len(runs') = Len(runs)
       /\ \E i \in 1..Len(runs) :
            /\ runs[i].stage = "fetch"
            /\ runs'[i].stage = "publish"
    \/ /\ Len(runs') = Len(runs) - 1
       /\ lastResult' \in {"true", "false"}

\* C25: when every awaited call eventually returns, an execution in flight
\* eventually ends and the scheduler is Idle or RetryPending.  Nothing but
\* the return of its awaited call advances or ends an execution (there is no
\* timeout), and every cadence tick that fires meanwhile is skipped.
C25_RunsEnd ==
    /\ (runs # << >>) ~> (runs = << >> /\ lastResult \in {"true", "false"})
    /\ [][ /\ (runs # << >> /\ runs' # runs) => CallReturns
           /\ (runs # << >> /\ ticks' # ticks) =>
                (runs' = runs /\ skipped' = skipped + 1) ]_vars

\* An execution started by a cadence tick has ended in success, and a tick
\* that fired while it was in flight was skipped.
C25_Witness ==
    /\ runs = << >>
    /\ ~isFetching
    /\ lastTrigger = "tick"
    /\ lastResult = "true"
    /\ skipped >= 1

\* The step belongs to a manual-trigger run: the request arrives or one of
\* its awaited calls settles.
ManualStep == postCount' # postCount \/ posts' # posts

\* Every POST handler in flight is inside fetchAndPublishPrice.
InCycle ==
    /\ posts # << >>
    /\ \A i \in 1..Len(posts) : posts[i].stage \in {"fetch", "publish"}

\* C26: no step of a manual-trigger run changes the scheduler's busy flag,
\* retry handle or timers, its executions, or the subscription, whether the
\* run succeeds or fails; the request is accepted and the run's calls settle
\* whatever the scheduler's state is.
C26_ManualRunApart ==
    /\ [](postCount < MaxPosts => ENABLED PostRequest)
    /\ [](InCycle => ENABLED PostStep)
    /\ [][ManualStep =>
            UNCHANGED <<isFetching, retryTimeout, timers, runs, cronScheduled,
                        started, subscription, isSubscribed, state>>]_vars

\* A manual-trigger run failed while the scheduler's retry was pending and
\* the subscription was live: one timer is pending, as before.
C26_Witness ==
    /\ postCycle.failure = "fetch"
    /\ postResponse = CycleFailed
    /\ runs = << >>
    /\ retryTimeout
    /\ isFetching
    /\ timers = 1
    /\ subscription = "active"

\* C27 (as stated): from one write of the fixed key to the next, the stored
\* timestamp does not decrease, for scheduler runs and manual-trigger runs
\* interleaved in any way.
C27_TimestampMonotonic ==
    [][writes' # writes => store'.timestamp >= store.timestamp]_vars

\* Nothing the subscriber started is still pending: the initial read
\* answered, the subscription is set up, every notification was delivered
\* and every re-read resolved with the stored record.
SubscriberSettled ==
    /\ subscription = "active"
    /\ isSubscribed
    /\ ~cleanedUp
    /\ initialRes \in {"data", "empty"}
    /\ notifs = 0
    /\ rereads = << >>
    /\ ~rereadFaults

\* C28 (as stated): with the subscriber started and not stopped, a record
\* published once, at any moment, is reflected once the subscriber has
\* settled, also when it was published after the initial read completed and
\* before the subscription was set up.
C28_PublishedIsReflected ==
    (SubscriberSettled /\ writes = 1) => ExposedIsStored

\* The four record fields of an exposed state.
Exposed(st) == <<st.price, st.priceBigInt, st.timestamp, st.updater>>

\* The records a read of the hook holds or can get now: the decoded stored
\* bytes and the records already served to re-reads in flight.
RecordsRead ==
    (IF store = NoRecord THEN {} ELSE {decodeStored(store).rec})
    \cup {rereads[i].rec : i \in {j \in 1..Len(rereads) : rereads[j].kind = "data"}}

\* C29: the four exposed record fields are all empty or all set, the decimal
\* price being the raw price / 100; a step that changes any of them sets all
\* four from one record a read returned; a step that sets an error message
\* leaves the four unchanged.
C29_ExposedRecordWhole ==
    /\ [](\/ Exposed(state) = Exposed(InitialState)
          \/ /\ state.priceBigInt >= 0
             /\ state.timestamp >= 0
             /\ state.updater # NoAddress
             /\ state.price = priceUSD(state.priceBigInt))
    /\ [][ /\ Exposed(state') # Exposed(state) =>
                \E rec \in RecordsRead :
                    /\ state'.priceBigInt = rec.price
                    /\ state'.price = priceUSD(rec.price)
                    /\ state'.timestamp = rec.timestamp
                    /\ state'.updater = rec.updater
           /\ (state'.error # NULL /\ state' # state) =>
                Exposed(state') = Exposed(state) ]_vars

\* A record is exposed whole, and the failure to set up the subscription
\* added its message without touching it.
C29_Witness ==
    /\ state.error # NULL
    /\ state.priceBigInt = 10000000
    /\ state.price = [whole |-> 100000, frac |-> 0]
    /\ state.timestamp = store.timestamp
    /\ state.updater = store.updater

\* An execution ends in this step.
RunEnds == Len(runs') = Len(runs) - 1

\* An execution is waiting for updateContractPrice.
InContractUpdate == \E i \in 1..Len(runs) : runs[i].stage = "contract"

\* C30: in the pipeline that also updates the contract, updateContractPrice
\* is called only in the step in which the stream publish is accepted, so
\* an execution waiting for it has its record in the store and a rejected
\* publish ends the run in failure with no contract update; and however the
\* contract update ends (missing settings, no balance, a failed request or
\* transaction, or success) the run reports success, arms no retry timer
\* and clears the busy flag.
C30_ContractUpdateApart ==
    /\ [](\A i \in 1..Len(runs) :
            runs[i].stage = "contract" => store = priceRecord(runs[i].data))
    /\ [][ /\ contractOutcome' # contractOutcome =>
                \/ /\ contractOutcome' \in {"pending", "skipped"}
                   /\ writes' = writes + 1
                \/ /\ contractOutcome = "pending"
                   /\ contractOutcome' \in {"noBalance", "failed", "updated"}
                   /\ writes' = writes
           /\ (RunEnds /\ writes' = writes /\ ~InContractUpdate) =>
                /\ lastResult' = "false"
                /\ UNCHANGED <<contractPrice, contractOutcome>>
           /\ (RunEnds /\ (writes' # writes \/ InContractUpdate)) =>
                /\ contractOutcome' \in {"skipped", "noBalance", "failed",
                                          "updated"}
                /\ lastResult' = "true"
                /\ timers' = timers
                /\ retryTimeout' = retryTimeout
                /\ ~isFetching'
           /\ contractPrice' # contractPrice =>
                /\ contractOutcome' = "updated"
                /\ contractPrice'.price = store.price
                /\ contractPrice'.timestamp = store.timestamp ]_vars

\* The retry's run published its record, the contract update then failed,
\* and the scheduler is idle with no timer pending.
C30_Witness ==
    /\ contractOutcome = "failed"
    /\ lastTrigger = "retry"
    /\ lastResult = "true"
    /\ writes = 1
    /\ timers = 0
    /\ ~retryTimeout
    /\ ~isFetching
    /\ runs = << >>
    /\ contractPrice = NoContractPrice

====
